---- MODULE Spec2Model ----
(***************************************************************************)
(* A model of the readyset teaching examples:                              *)
(*   examples/2-routing  - the REST handlers over the process-wide         *)
(*                         todoItems slice, and main's shutdown sequence;  *)
(*   examples/1-shutdown - main's shutdown sequence and launchServer.      *)
(* Texts that the code parses or formats (the {id} path segment, the       *)
(* Location header, the form fields) are modelled as texts: a path segment *)
(* is a sequence of one-character strings, a form field is a string.       *)
(***************************************************************************)
EXTENDS Integers, Sequences, FiniteSets, TLC

(***************************************************************************)
(* Bounds of the model.                                                    *)
(***************************************************************************)
\* the longest collection a Create is allowed to build
MaxLen == 3
\* the largest number of Creates answered 201 in one run
MaxCreated == 3
\* the number of handler goroutines that run at once (concurrent model)
NumHandlers == 2
\* the largest number of requests in flight at once (lifecycle model)
MaxActive == 2

(***************************************************************************)
(* Program constants.                                                      *)
(***************************************************************************)
StatusOK == 200
StatusCreated == 201
StatusBadRequest == 400
StatusNotFound == 404
\* context.WithTimeout(context.Background(), 5*time.Second), in seconds
ShutdownTimeout == 5

VARIABLES
    todoItems,   \* var todoItems []TodoItem
    before,      \* todoItems as it was when the handler call that ran last began
    request,     \* the *http.Request of the handler call that ran last
    response,    \* what that call wrote to its http.ResponseWriter
    created,     \* number of Creates answered 201 so far
    deleted,     \* number of Deletes answered 200 so far
    handlers,    \* the handler goroutines: position, request and locals
    example,     \* which program runs: 1 (1-shutdown) or 2 (2-routing)
    mainPc,      \* position of the main goroutine
    serverPc,    \* position of the goroutine running ListenAndServe
    inShutdown,  \* http.Server's inShutdown flag, set by Shutdown
    active,      \* number of connections with a request in flight
    elapsed,     \* seconds since the shutdown context was created
    signalled,   \* the NotifyContext context is done (os.Interrupt received)
    stdout,      \* lines printed to standard output
    stderr,      \* whether anything was written to standard error
    exitStatus   \* -1 while the process runs, else its exit status

crudVars == <<todoItems, before, request, response, created, deleted>>
concVars == <<handlers>>
lifeVars == <<example, mainPc, serverPc, inShutdown, active, elapsed,
              signalled, stdout, stderr, exitStatus>>
vars == <<todoItems, before, request, response, created, deleted, handlers,
          example, mainPc, serverPc, inShutdown, active, elapsed, signalled, stdout, stderr, exitStatus>>

(***************************************************************************)
(* strconv.Atoi, fmt's %d and strconv.ParseBool.                           *)
(***************************************************************************)
Digits == {"0", "1", "2", "3", "4", "5", "6", "7", "8", "9"}

DigitVal ==
    "0" :> 0 @@ "1" :> 1 @@ "2" :> 2 @@ "3" :> 3 @@ "4" :> 4 @@
    "5" :> 5 @@ "6" :> 6 @@ "7" :> 7 @@ "8" :> 8 @@ "9" :> 9

DigitChar == <<"0", "1", "2", "3", "4", "5", "6", "7", "8", "9">>

RECURSIVE DecimalValue(_)
DecimalValue(ds) ==
    IF ds = <<>> THEN 0
    ELSE DecimalValue(SubSeq(ds, 1, Len(ds) - 1)) * 10 + DigitVal[ds[Len(ds)]]

\* strconv.Atoi on a short text (the fast path: an optional sign, then one
\* or more decimal digits; anything else is a syntax error).
Atoi(s) ==
    LET signed == Len(s) > 0 /\ s[1] \in {"+", "-"}
        neg    == Len(s) > 0 /\ s[1] = "-"
        ds     == IF signed THEN Tail(s) ELSE s
    IN  IF Len(ds) < 1 \/ \E i \in 1..Len(ds) : ds[i] \notin Digits
        THEN [val |-> 0, err |-> TRUE]
        ELSE [val |-> IF neg THEN 0 - DecimalValue(ds) ELSE DecimalValue(ds),
              err |-> FALSE]

RECURSIVE NatDigits(_)
NatDigits(n) ==
    IF n < 10 THEN <<DigitChar[n + 1]>>
    ELSE NatDigits(n \div 10) \o <<DigitChar[(n % 10) + 1]>>

\* the %d verb of fmt.Sprintf
FormatInt(n) == IF n < 0 THEN <<"-">> \o NatDigits(0 - n) ELSE NatDigits(n)

\* strconv.ParseBool
ParseBool(str) ==
    IF str \in {"1", "t", "T", "TRUE", "true", "True"}
    THEN [val |-> TRUE, err |-> FALSE]
    ELSE IF str \in {"0", "f", "F", "FALSE", "false", "False"}
    THEN [val |-> FALSE, err |-> FALSE]
    ELSE [val |-> FALSE, err |-> TRUE]

(***************************************************************************)
(* Requests.                                                               *)
(***************************************************************************)
\* the patterns main registers on the router
ListRoute == "GET /todo-item"
ReadRoute == "GET /todo-item/{id}"
ExistsRoute == "HEAD /todo-item/{id}"
CreateRoute == "POST /todo-item"
ReplaceRoute == "PUT /todo-item/{id}"
UpdateRoute == "PATCH /todo-item/{id}"
DeleteRoute == "DELETE /todo-item/{id}"

\* {id} path segments tried (a segment is never empty: the pattern
\* /todo-item/{id} matches one non-empty segment)
IdTexts == {<<"0">>, <<"1">>, <<"2">>, <<"-", "1">>, <<"x">>}

ContentTexts == {"", "a"}
DoneTexts == {"", "true", "F", "maybe"}
FormKeys == {"content", "done"}

\* the parsed form: the fields the body supplies, each with its text
Forms ==
    {f \in UNION {[D -> ContentTexts \cup DoneTexts] : D \in SUBSET FormKeys} :
        \A k \in DOMAIN f :
            f[k] \in (IF k = "content" THEN ContentTexts ELSE DoneTexts)}

NoForm == [k \in {} |-> ""]

\* r.URL.Host of a request the server received in origin form
URLHost == ""

\* r.FormValue(key): the empty string when the field is absent
FormValue(r, key) == IF key \in DOMAIN r.form THEN r.form[key] ELSE ""

\* requests with a body: ParseForm fails (formOK = FALSE, nothing parsed)
\* or succeeds with one of Forms
BodyRequests(handler, ids) ==
    {[handler |-> handler, id |-> id, formOK |-> TRUE, form |-> f] :
        id \in ids, f \in Forms}
    \cup {[handler |-> handler, id |-> id, formOK |-> FALSE, form |-> NoForm] :
        id \in ids}

PlainRequests(handler, ids) ==
    {[handler |-> handler, id |-> id, formOK |-> TRUE, form |-> NoForm] :
        id \in ids}

\* the requests tried on each route
ListRequests == PlainRequests(ListRoute, {<<>>})
ReadRequests == PlainRequests(ReadRoute, IdTexts)
ExistsRequests == PlainRequests(ExistsRoute, IdTexts)
CreateRequests == BodyRequests(CreateRoute, {<<>>})
ReplaceRequests == BodyRequests(ReplaceRoute, IdTexts)
UpdateRequests == BodyRequests(UpdateRoute, IdTexts)
DeleteRequests == PlainRequests(DeleteRoute, IdTexts)

(***************************************************************************)
(* Responses.                                                              *)
(***************************************************************************)
\* the plain-text bodies of the 4xx responses (the code quotes id and done
\* with backquotes, which a TLA+ string cannot hold)
BadId == "id must be of type int"
IdNotFound == "id not found"
InvalidForm == "invalid form"
BadDone == "done must be of type bool"

NoHeader == <<>>
NoBody == [kind |-> "none", text |-> "", items |-> <<>>]
Text(s) == [kind |-> "text", text |-> s, items |-> <<>>]
\* json.NewEncoder(w).Encode(item) / Encode(todoItems)
JSONObject(item) == [kind |-> "object", text |-> "", items |-> <<item>>]
JSONArray(items) == [kind |-> "array", text |-> "", items |-> items]

Result(items, status, location, body) ==
    [items |-> items, status |-> status, location |-> location, body |-> body]

TodoItem(content, done) == [Content |-> content, Done |-> done]

\* fmt.Sprintf("%s/todo-item/%d", r.URL.Host, len(todoItems)-1)
Location(host, n) == <<host, "/todo-item/">> \o FormatInt(n)

\* the {id} segment of a Location value
LocationId(location) == SubSeq(location, 3, Len(location))

(***************************************************************************)
(* The handlers, as functions from the collection and the request to the   *)
(* collection after the call and the response written.  Slice index i of   *)
(* the code is sequence index i + 1.                                       *)
(***************************************************************************)
getTodoItems(items, r) ==
    Result(items, StatusOK, NoHeader, JSONArray(items))


\* getTodoItem with the bounds check made before the parse error is looked at
getTodoItem_BoundsFirst(items, r) ==
    LET id == Atoi(r.id)
    IN  IF id.val < 0 \/ id.val > Len(items) - 1
        THEN Result(items, StatusNotFound, NoHeader, Text(IdNotFound))
        ELSE IF id.err
        THEN Result(items, StatusBadRequest, NoHeader, Text(BadId))
        ELSE Result(items, StatusOK, NoHeader, JSONObject(items[id.val + 1]))


\* getTodoItem taking the item out of the collection as it reads it
getTodoItem_Consumes(items, r) ==
    LET id == Atoi(r.id)
    IN  IF id.err
        THEN Result(items, StatusBadRequest, NoHeader, Text(BadId))
        ELSE IF id.val < 0 \/ id.val > Len(items) - 1
        THEN Result(items, StatusNotFound, NoHeader, Text(IdNotFound))
        ELSE Result(SubSeq(items, 1, id.val)
                        \o SubSeq(items, id.val + 2, Len(items)),
                    StatusOK, NoHeader, JSONObject(items[id.val + 1]))

getTodoItem(items, r) ==
    LET id == Atoi(r.id)
    IN  IF id.err
        THEN Result(items, StatusBadRequest, NoHeader,
                    Text(BadId))
        ELSE IF id.val < 0 \/ id.val > Len(items) - 1
        THEN Result(items, StatusNotFound, NoHeader, Text(IdNotFound))
        ELSE Result(items, StatusOK, NoHeader, JSONObject(items[id.val + 1]))


\* getTodoItemExists with the bounds test id > len(todoItems)
getTodoItemExists_OffByOne(items, r) ==
    LET id == Atoi(r.id)
    IN  IF id.err
        THEN Result(items, StatusBadRequest, NoHeader, Text(BadId))
        ELSE IF id.val < 0 \/ id.val > Len(items)
        THEN Result(items, StatusNotFound, NoHeader, Text(IdNotFound))
        ELSE Result(items, StatusOK, NoHeader, NoBody)

getTodoItemExists(items, r) ==
    LET id == Atoi(r.id)
    IN  IF id.err
        THEN Result(items, StatusBadRequest, NoHeader,
                    Text(BadId))
        ELSE IF id.val < 0 \/ id.val > Len(items) - 1
        THEN Result(items, StatusNotFound, NoHeader, Text(IdNotFound))
        ELSE Result(items, StatusOK, NoHeader, NoBody)


\* createTodoItem with the Location built from len(todoItems), not len - 1
createTodoItem_LocationLen(items, r) ==
    IF ~r.formOK
    THEN Result(items, StatusBadRequest, NoHeader, Text(InvalidForm))
    ELSE
    LET content == FormValue(r, "content")
        done    == ParseBool(FormValue(r, "done"))
    IN  IF done.err
        THEN Result(items, StatusBadRequest, NoHeader, Text(BadDone))
        ELSE LET appended == Append(items, TodoItem(content, done.val))
             IN  Result(appended, StatusCreated,
                        Location(URLHost, Len(appended)), NoBody)

\* createTodoItem putting the new item first instead of last
createTodoItem_Prepends(items, r) ==
    IF ~r.formOK
    THEN Result(items, StatusBadRequest, NoHeader, Text(InvalidForm))
    ELSE
    LET content == FormValue(r, "content")
        done    == ParseBool(FormValue(r, "done"))
    IN  IF done.err
        THEN Result(items, StatusBadRequest, NoHeader, Text(BadDone))
        ELSE LET appended == <<TodoItem(content, done.val)>> \o items
             IN  Result(appended, StatusCreated,
                        Location(URLHost, Len(appended) - 1), NoBody)


\* createTodoItem reading an absent or empty done as false
createTodoItem_DefaultDone(items, r) ==
    IF ~r.formOK
    THEN Result(items, StatusBadRequest, NoHeader, Text(InvalidForm))
    ELSE
    LET content == FormValue(r, "content")
        doneStr == FormValue(r, "done")
        done    == IF doneStr = "" THEN [val |-> FALSE, err |-> FALSE]
                   ELSE ParseBool(doneStr)
    IN  IF done.err
        THEN Result(items, StatusBadRequest, NoHeader, Text(BadDone))
        ELSE LET appended == Append(items, TodoItem(content, done.val))
             IN  Result(appended, StatusCreated,
                        Location(URLHost, Len(appended) - 1), NoBody)

\* createTodoItem appending before it has validated done
createTodoItem_AppendsEarly(items, r) ==
    IF ~r.formOK
    THEN Result(items, StatusBadRequest, NoHeader, Text(InvalidForm))
    ELSE
    LET content  == FormValue(r, "content")
        done     == ParseBool(FormValue(r, "done"))
        appended == Append(items, TodoItem(content, done.val))
    IN  IF done.err
        THEN Result(appended, StatusBadRequest, NoHeader, Text(BadDone))
        ELSE Result(appended, StatusCreated,
                    Location(URLHost, Len(appended) - 1), NoBody)

createTodoItem(items, r) ==
    IF ~r.formOK
    THEN Result(items, StatusBadRequest, NoHeader, Text(InvalidForm))
    ELSE
    LET content == FormValue(r, "content")
        done    == ParseBool(FormValue(r, "done"))
    IN  IF done.err
        THEN Result(items, StatusBadRequest, NoHeader,
                    Text(BadDone))
        ELSE LET appended == Append(items, TodoItem(content, done.val))
             IN  Result(appended, StatusCreated,
                        Location(URLHost, Len(appended) - 1), NoBody)


\* replaceTodoItem keeping the old content when the new one is empty,
\* as PATCH does
replaceTodoItem_KeepsContent(items, r) ==
    LET id == Atoi(r.id)
    IN  IF id.err
        THEN Result(items, StatusBadRequest, NoHeader, Text(BadId))
        ELSE IF id.val < 0 \/ id.val > Len(items) - 1
        THEN Result(items, StatusNotFound, NoHeader, Text(IdNotFound))
        ELSE IF ~r.formOK
        THEN Result(items, StatusBadRequest, NoHeader, Text(InvalidForm))
        ELSE
        LET content == FormValue(r, "content")
            done    == ParseBool(FormValue(r, "done"))
            kept    == IF content # "" THEN content
                       ELSE items[id.val + 1].Content
        IN  IF done.err
            THEN Result(items, StatusBadRequest, NoHeader, Text(BadDone))
            ELSE LET replaced ==
                        [items EXCEPT ![id.val + 1] = TodoItem(kept, done.val)]
                 IN  Result(replaced, StatusOK,
                            Location(URLHost, Len(replaced) - 1), NoBody)


\* replaceTodoItem validating the form before the bounds of id
replaceTodoItem_FormFirst(items, r) ==
    LET id      == Atoi(r.id)
        content == FormValue(r, "content")
        done    == ParseBool(FormValue(r, "done"))
    IN  IF id.err
        THEN Result(items, StatusBadRequest, NoHeader, Text(BadId))
        ELSE IF ~r.formOK
        THEN Result(items, StatusBadRequest, NoHeader, Text(InvalidForm))
        ELSE IF done.err
        THEN Result(items, StatusBadRequest, NoHeader, Text(BadDone))
        ELSE IF id.val < 0 \/ id.val > Len(items) - 1
        THEN Result(items, StatusNotFound, NoHeader, Text(IdNotFound))
        ELSE LET replaced ==
                    [items EXCEPT ![id.val + 1] = TodoItem(content, done.val)]
             IN  Result(replaced, StatusOK,
                        Location(URLHost, Len(replaced) - 1), NoBody)

replaceTodoItem(items, r) ==
    LET id == Atoi(r.id)
    IN  IF id.err
        THEN Result(items, StatusBadRequest, NoHeader,
                    Text(BadId))
        ELSE IF id.val < 0 \/ id.val > Len(items) - 1
        THEN Result(items, StatusNotFound, NoHeader, Text(IdNotFound))
        ELSE IF ~r.formOK
        THEN Result(items, StatusBadRequest, NoHeader, Text(InvalidForm))
        ELSE
        LET content == FormValue(r, "content")
            done    == ParseBool(FormValue(r, "done"))
        IN  IF done.err
            THEN Result(items, StatusBadRequest, NoHeader,
                        Text(BadDone))
            ELSE LET replaced ==
                        [items EXCEPT ![id.val + 1] = TodoItem(content, done.val)]
                 IN  Result(replaced, StatusOK,
                            Location(URLHost, Len(replaced) - 1), NoBody)


\* updateTodoItem without the test content != ""
updateTodoItem_AlwaysContent(items, r) ==
    LET id == Atoi(r.id)
    IN  IF id.err
        THEN Result(items, StatusBadRequest, NoHeader, Text(BadId))
        ELSE IF id.val < 0 \/ id.val > Len(items) - 1
        THEN Result(items, StatusNotFound, NoHeader, Text(IdNotFound))
        ELSE IF ~r.formOK
        THEN Result(items, StatusBadRequest, NoHeader, Text(InvalidForm))
        ELSE
        LET content == FormValue(r, "content")
            items1  == [items EXCEPT ![id.val + 1].Content = content]
            doneStr == FormValue(r, "done")
            done    == ParseBool(doneStr)
        IN  IF doneStr # ""
            THEN IF done.err
                 THEN Result(items1, StatusBadRequest, NoHeader, Text(BadDone))
                 ELSE Result([items1 EXCEPT ![id.val + 1].Done = done.val],
                             StatusOK, NoHeader, NoBody)
            ELSE Result(items1, StatusOK, NoHeader, NoBody)

updateTodoItem(items, r) ==
    LET id == Atoi(r.id)
    IN  IF id.err
        THEN Result(items, StatusBadRequest, NoHeader,
                    Text(BadId))
        ELSE IF id.val < 0 \/ id.val > Len(items) - 1
        THEN Result(items, StatusNotFound, NoHeader, Text(IdNotFound))
        ELSE IF ~r.formOK
        THEN Result(items, StatusBadRequest, NoHeader, Text(InvalidForm))
        ELSE
        LET content == FormValue(r, "content")
            \* todoItems[id].Content = content, when content != ""
            items1  == IF content # ""
                       THEN [items EXCEPT ![id.val + 1].Content = content]
                       ELSE items
            doneStr == FormValue(r, "done")
            done    == ParseBool(doneStr)
        IN  IF doneStr # ""
            THEN IF done.err
                 THEN Result(items1, StatusBadRequest, NoHeader,
                             Text(BadDone))
                 ELSE Result([items1 EXCEPT ![id.val + 1].Done = done.val],
                             StatusOK, NoHeader, NoBody)
            ELSE Result(items1, StatusOK, NoHeader, NoBody)


\* deleteTodoItem without the test id < 0
deleteTodoItem_NoNegativeCheck(items, r) ==
    LET id == Atoi(r.id)
    IN  IF id.err
        THEN Result(items, StatusBadRequest, NoHeader, Text(BadId))
        ELSE IF id.val > Len(items) - 1
        THEN Result(items, StatusNotFound, NoHeader, Text(IdNotFound))
        ELSE Result(SubSeq(items, 1, id.val)
                        \o SubSeq(items, id.val + 2, Len(items)),
                    StatusOK, NoHeader, NoBody)

\* deleteTodoItem cutting one place too far:
\* append(todoItems[:id+1], todoItems[id+2:]...)
deleteTodoItem_OffByOne(items, r) ==
    LET id == Atoi(r.id)
    IN  IF id.err
        THEN Result(items, StatusBadRequest, NoHeader, Text(BadId))
        ELSE IF id.val < 0 \/ id.val > Len(items) - 1
        THEN Result(items, StatusNotFound, NoHeader, Text(IdNotFound))
        ELSE Result(SubSeq(items, 1, id.val + 1)
                        \o SubSeq(items, id.val + 3, Len(items)),
                    StatusOK, NoHeader, NoBody)

deleteTodoItem(items, r) ==
    LET id == Atoi(r.id)
    IN  IF id.err
        THEN Result(items, StatusBadRequest, NoHeader,
                    Text(BadId))
        ELSE IF id.val < 0 \/ id.val > Len(items) - 1
        THEN Result(items, StatusNotFound, NoHeader, Text(IdNotFound))
        ELSE \* append(todoItems[:id], todoItems[id+1:]...)
             Result(SubSeq(items, 1, id.val)
                        \o SubSeq(items, id.val + 2, Len(items)),
                    StatusOK, NoHeader, NoBody)

(***************************************************************************)
(* One handler call, start to end (requests handled one at a time).        *)
(***************************************************************************)
\* the process runs and its server accepts requests
Serving == exitStatus = -1 /\ serverPc = "serving" /\ ~inShutdown

Serve(out, r) ==
    /\ todoItems' = out.items
    /\ before' = todoItems
    /\ request' = r
    /\ response' = [status |-> out.status, location |-> out.location,
                    body |-> out.body]
    /\ created' = IF r.handler = CreateRoute /\ out.status = StatusCreated
                  THEN created + 1 ELSE created
    /\ deleted' = IF r.handler = DeleteRoute /\ out.status = StatusOK
                  THEN deleted + 1 ELSE deleted
    /\ UNCHANGED <<concVars, lifeVars>>

GetTodoItems ==
    /\ Serving
    /\ \E r \in ListRequests :
        Serve(getTodoItems(todoItems, r), r)

GetTodoItem ==
    /\ Serving
    /\ \E r \in ReadRequests :
        Serve(getTodoItem(todoItems, r), r)

GetTodoItemExists ==
    /\ Serving
    /\ \E r \in ExistsRequests :
        Serve(getTodoItemExists(todoItems, r), r)

CreateTodoItem ==
    /\ Serving
    /\ Len(todoItems) < MaxLen
    /\ created < MaxCreated
    /\ \E r \in CreateRequests :
        Serve(createTodoItem(todoItems, r), r)

ReplaceTodoItem ==
    /\ Serving
    /\ \E r \in ReplaceRequests :
        Serve(replaceTodoItem(todoItems, r), r)

UpdateTodoItem ==
    /\ Serving
    /\ \E r \in UpdateRequests :
        Serve(updateTodoItem(todoItems, r), r)

DeleteTodoItem ==
    /\ Serving
    /\ \E r \in DeleteRequests :
        Serve(deleteTodoItem(todoItems, r), r)

\* the goroutines net/http runs handlers on, none of them started
Goroutines == 1..NumHandlers
IdleHandler ==
    [pc |-> "idle",
     r |-> [handler |-> "", id |-> <<>>, formOK |-> TRUE, form |-> NoForm],
     old |-> <<>>, status |-> 0, location |-> NoHeader]

NoRequest == [handler |-> "", id |-> <<>>, formOK |-> TRUE, form |-> NoForm]
NoResponse == [status |-> 0, location |-> NoHeader, body |-> NoBody]

\* The router of example 2 while its server is serving.
Init ==
    /\ todoItems = <<>>
    /\ before = <<>>
    /\ request = NoRequest
    /\ response = NoResponse
    /\ created = 0
    /\ deleted = 0
    /\ handlers = [g \in Goroutines |-> IdleHandler]
    /\ example = 2
    /\ mainPc = "wait"
    /\ serverPc = "serving"
    /\ inShutdown = FALSE
    /\ active = 0
    /\ elapsed = 0
    /\ signalled = FALSE
    /\ stdout = <<"listening on port">>
    /\ stderr = FALSE
    /\ exitStatus = -1

Next ==
    \/ GetTodoItems
    \/ GetTodoItem
    \/ GetTodoItemExists
    \/ CreateTodoItem
    \/ ReplaceTodoItem
    \/ UpdateTodoItem
    \/ DeleteTodoItem

Spec == Init /\ [][Next]_vars

(***************************************************************************)
(* The lifecycle of examples 1 and 2: main, the goroutine that runs        *)
(* ListenAndServe, the requests in flight and the shutdown context's       *)
(* clock.  The handlers' effect on todoItems is left to Spec.              *)
(***************************************************************************)
Listening == "listening on port"
Goodbye == "goodbye :)"

Running == exitStatus = -1

\* fmt.Printf("listening on port ..."); go launchServer(&server)
Launch ==
    /\ Running /\ mainPc = "start"
    /\ stdout' = Append(stdout, Listening)
    /\ serverPc' = "launched"
    /\ mainPc' = "notify"
    /\ UNCHANGED <<crudVars, concVars, example, inShutdown, active, elapsed, signalled,
                   stderr, exitStatus>>

\* ctx, cancel := signal.NotifyContext(context.Background(), os.Interrupt)
\* and then main blocks in <-ctx.Done()
NotifyContext ==
    /\ Running /\ mainPc = "notify"
    /\ mainPc' = "wait"
    /\ UNCHANGED <<crudVars, concVars, example, serverPc, inShutdown, active, elapsed,
                   signalled, stdout, stderr, exitStatus>>

\* os.Interrupt is delivered to the process
Interrupt ==
    /\ Running /\ mainPc = "wait" /\ ~signalled
    /\ signalled' = TRUE
    /\ UNCHANGED <<crudVars, concVars, example, mainPc, serverPc, inShutdown, active,
                   elapsed, stdout, stderr, exitStatus>>

\* server.ListenAndServe() binds the port and starts accepting
ListenOK ==
    /\ Running /\ serverPc = "launched" /\ ~inShutdown
    /\ serverPc' = "serving"
    /\ UNCHANGED <<crudVars, concVars, example, mainPc, inShutdown, active, elapsed,
                   signalled, stdout, stderr, exitStatus>>

\* server.ListenAndServe() fails (the port cannot be bound): err is not
\* http.ErrServerClosed, the goroutine panics, and nothing on that
\* goroutine recovers: the Go runtime prints the panic and ends the whole
\* process with status 2
ListenFail ==
    /\ Running /\ serverPc = "launched" /\ ~inShutdown
    /\ serverPc' = "panicked"
    /\ mainPc' = "killed"
    /\ stderr' = TRUE
    /\ exitStatus' = 2
    /\ UNCHANGED <<crudVars, concVars, example, inShutdown, active, elapsed, signalled,
                   stdout>>

\* server.ListenAndServe() returns http.ErrServerClosed once Shutdown has
\* been called, whether it was serving or had not started yet; the
\* goroutine returns
ListenClosed ==
    /\ Running /\ serverPc \in {"launched", "serving"} /\ inShutdown
    /\ serverPc' = "returned"
    /\ UNCHANGED <<crudVars, concVars, example, mainPc, inShutdown, active, elapsed,
                   signalled, stdout, stderr, exitStatus>>

\* a connection's request reaches its handler
RequestBegin ==
    /\ Running /\ serverPc = "serving" /\ ~inShutdown
    /\ active < MaxActive
    /\ active' = active + 1
    /\ UNCHANGED <<crudVars, concVars, example, mainPc, serverPc, inShutdown, elapsed,
                   signalled, stdout, stderr, exitStatus>>

\* a handler returns and its connection becomes idle
RequestEnd ==
    /\ Running /\ active > 0
    /\ active' = active - 1
    /\ UNCHANGED <<crudVars, concVars, example, mainPc, serverPc, inShutdown, elapsed,
                   signalled, stdout, stderr, exitStatus>>

\* <-ctx.Done() returns; ctx = context.WithTimeout(.., 5*time.Second);
\* server.Shutdown(ctx) sets inShutdown and closes the listeners
ShutdownBegin ==
    /\ Running /\ mainPc = "wait" /\ signalled
    /\ inShutdown' = TRUE
    /\ elapsed' = 0
    /\ mainPc' = "poll"
    /\ UNCHANGED <<crudVars, concVars, example, serverPc, active, signalled, stdout,
                   stderr, exitStatus>>

\* a second passes on the shutdown context's clock
Tick ==
    /\ Running /\ mainPc \in {"poll", "select"}
    /\ elapsed < ShutdownTimeout
    /\ elapsed' = elapsed + 1
    /\ UNCHANGED <<crudVars, concVars, example, mainPc, serverPc, inShutdown, active,
                   signalled, stdout, stderr, exitStatus>>

\* Shutdown's loop: closeIdleConns() finds every connection idle and
\* Shutdown returns nil
ShutdownIdle ==
    /\ Running /\ mainPc = "poll" /\ active = 0
    /\ mainPc' = "farewell"
    /\ UNCHANGED <<crudVars, concVars, example, serverPc, inShutdown, active, elapsed,
                   signalled, stdout, stderr, exitStatus>>

\* Shutdown's loop: a connection is still active, go on to the select
ShutdownBusy ==
    /\ Running /\ mainPc = "poll" /\ active > 0
    /\ mainPc' = "select"
    /\ UNCHANGED <<crudVars, concVars, example, serverPc, inShutdown, active, elapsed,
                   signalled, stdout, stderr, exitStatus>>

\* Shutdown's select: the poll timer fires, poll again
ShutdownPollTimer ==
    /\ Running /\ mainPc = "select"
    /\ mainPc' = "poll"
    /\ UNCHANGED <<crudVars, concVars, example, serverPc, inShutdown, active, elapsed,
                   signalled, stdout, stderr, exitStatus>>

\* what main does with the error Shutdown returns when ctx is done
\* (context.DeadlineExceeded): example 1 drops it and goes on to the
\* farewell; example 2 panics with it, main's deferred recoverer recovers,
\* writes to os.Stderr and calls os.Exit(1)
ShutdownError(ex) ==
    IF ex = 1
    THEN [mainPc |-> "farewell", stderr |-> FALSE, exitStatus |-> -1]
    ELSE [mainPc |-> "recovered", stderr |-> TRUE, exitStatus |-> 1]

\* Shutdown's select: ctx.Done() is ready, Shutdown returns ctx.Err()
ShutdownExpired ==
    /\ Running /\ mainPc = "select" /\ elapsed = ShutdownTimeout
    /\ LET out == ShutdownError(example)
       IN  /\ mainPc' = out.mainPc
           /\ stderr' = (stderr \/ out.stderr)
           /\ exitStatus' = out.exitStatus
    /\ UNCHANGED <<crudVars, concVars, example, serverPc, inShutdown, active, elapsed,
                   signalled, stdout>>

\* fmt.Println("goodbye :)")
Farewell ==
    /\ Running /\ mainPc = "farewell"
    /\ stdout' = Append(stdout, Goodbye)
    /\ mainPc' = "return"
    /\ UNCHANGED <<crudVars, concVars, example, serverPc, inShutdown, active, elapsed,
                   signalled, stderr, exitStatus>>

\* main returns: the deferred cancel and recoverer run, recover() is nil,
\* and the process exits with status 0
MainReturn ==
    /\ Running /\ mainPc = "return"
    /\ mainPc' = "exited"
    /\ exitStatus' = 0
    /\ UNCHANGED <<crudVars, concVars, example, serverPc, inShutdown, active, elapsed,
                   signalled, stdout, stderr>>

LifeInit ==
    /\ todoItems = <<>>
    /\ before = <<>>
    /\ request = NoRequest
    /\ response = NoResponse
    /\ created = 0
    /\ deleted = 0
    /\ handlers = [g \in Goroutines |-> IdleHandler]
    /\ example \in {1, 2}
    /\ mainPc = "start"
    /\ serverPc = "none"
    /\ inShutdown = FALSE
    /\ active = 0
    /\ elapsed = 0
    /\ signalled = FALSE
    /\ stdout = <<>>
    /\ stderr = FALSE
    /\ exitStatus = -1

LifeNext ==
    \/ Launch
    \/ NotifyContext
    \/ Interrupt
    \/ ListenOK
    \/ ListenFail
    \/ ListenClosed
    \/ RequestBegin
    \/ RequestEnd
    \/ ShutdownBegin
    \/ Tick
    \/ ShutdownIdle
    \/ ShutdownBusy
    \/ ShutdownPollTimer
    \/ ShutdownExpired
    \/ Farewell
    \/ MainReturn

SpecLife == LifeInit /\ [][LifeNext]_vars

(***************************************************************************)
(* The handlers of example 2 on concurrent goroutines.  net/http runs each *)
(* request's handler on its connection's goroutine and todoItems has no    *)
(* lock, so the statements of different handlers interleave.  Each action  *)
(* below is one statement (or one run of statements that touch no shared   *)
(* state) of one handler; each goroutine serves one request.  A statement  *)
(* is taken as atomic: every behaviour here is a behaviour of the program. *)
(***************************************************************************)
ConcIdTexts == {<<"0">>, <<"1">>}
ConcForms == {[content |-> "a", done |-> "true"], [done |-> "F"]}

ConcRequests ==
    {[handler |-> h, id |-> id, formOK |-> TRUE, form |-> NoForm] :
        h \in {ReadRoute, DeleteRoute}, id \in ConcIdTexts}
    \cup {[handler |-> h, id |-> id, formOK |-> TRUE, form |-> f] :
        h \in {ReplaceRoute, UpdateRoute}, id \in ConcIdTexts, f \in ConcForms}
    \cup {[handler |-> CreateRoute, id |-> <<>>, formOK |-> TRUE, form |-> f] :
        f \in ConcForms}

\* the collections the concurrent requests may find
ConcCollections ==
    {<<>>,
     <<TodoItem("a", FALSE)>>,
     <<TodoItem("a", FALSE), TodoItem("", TRUE)>>}

\* id < 0 || id > len(todoItems)-1 is false
InBounds(i, items) == ~(i < 0 \/ i > Len(items) - 1)

Returned(h, status, location) ==
    [h EXCEPT !.pc = "returned", !.status = status, !.location = location]
\* a run-time panic in the handler (index or slice bounds out of range);
\* net/http recovers it, logs it and closes the connection
Panicked(h) == [h EXCEPT !.pc = "panicked"]
At(h, pc) == [h EXCEPT !.pc = pc]

HandlerItem(h) ==
    TodoItem(FormValue(h.r, "content"), ParseBool(FormValue(h.r, "done")).val)

\* the router hands a request to its handler
Begin(g) ==
    /\ handlers[g].pc = "idle"
    /\ \E r \in ConcRequests :
        handlers' = [handlers EXCEPT ![g] =
            [@ EXCEPT !.r = r,
                      !.pc = IF r.handler = CreateRoute THEN "form"
                             ELSE "check"]]
    /\ UNCHANGED <<crudVars, lifeVars>>

\* strconv.Atoi(r.PathValue("id")) and the bounds test
CheckId(g) ==
    LET h  == handlers[g]
        id == Atoi(h.r.id)
    IN  /\ h.pc = "check"
        /\ handlers' = [handlers EXCEPT ![g] =
               IF id.err THEN Returned(h, StatusBadRequest, NoHeader)
               ELSE IF id.val < 0 \/ id.val > Len(todoItems) - 1
               THEN Returned(h, StatusNotFound, NoHeader)
               ELSE IF h.r.handler \in {ReplaceRoute, UpdateRoute}
               THEN At(h, "form")
               ELSE At(h, "access")]
        /\ UNCHANGED <<crudVars, lifeVars>>

\* r.ParseForm(), and in Create and Replace strconv.ParseBool of done
ParseRequestForm(g) ==
    LET h == handlers[g]
    IN  /\ h.pc = "form"
        /\ handlers' = [handlers EXCEPT ![g] =
               IF ~h.r.formOK THEN Returned(h, StatusBadRequest, NoHeader)
               ELSE IF h.r.handler = UpdateRoute THEN At(h, "setContent")
               ELSE IF ParseBool(FormValue(h.r, "done")).err
               THEN Returned(h, StatusBadRequest, NoHeader)
               ELSE IF h.r.handler = CreateRoute THEN At(h, "read")
               ELSE At(h, "access")]
        /\ UNCHANGED <<crudVars, lifeVars>>

\* getTodoItem: item := todoItems[id]
ReadAccess(g) ==
    LET h == handlers[g]
        i == Atoi(h.r.id).val
    IN  /\ h.pc = "access" /\ h.r.handler = ReadRoute
        /\ handlers' = [handlers EXCEPT ![g] =
               IF InBounds(i, todoItems)
               THEN Returned(h, StatusOK, NoHeader) ELSE Panicked(h)]
        /\ UNCHANGED <<crudVars, lifeVars>>

\* replaceTodoItem: todoItems[id] = TodoItem{...}
ReplaceAccess(g) ==
    LET h == handlers[g]
        i == Atoi(h.r.id).val
    IN  /\ h.pc = "access" /\ h.r.handler = ReplaceRoute
        /\ IF InBounds(i, todoItems)
           THEN /\ todoItems' = [todoItems EXCEPT ![i + 1] = HandlerItem(h)]
                /\ handlers' = [handlers EXCEPT ![g] = At(h, "location")]
           ELSE /\ todoItems' = todoItems
                /\ handlers' = [handlers EXCEPT ![g] = Panicked(h)]
        /\ UNCHANGED <<before, request, response, created, deleted, lifeVars>>

\* deleteTodoItem: todoItems = append(todoItems[:id], todoItems[id+1:]...)
DeleteAccess(g) ==
    LET h == handlers[g]
        i == Atoi(h.r.id).val
    IN  /\ h.pc = "access" /\ h.r.handler = DeleteRoute
        /\ IF i + 1 <= Len(todoItems)
           THEN /\ todoItems' = SubSeq(todoItems, 1, i)
                                    \o SubSeq(todoItems, i + 2, Len(todoItems))
                /\ handlers' = [handlers EXCEPT ![g] =
                                    Returned(h, StatusOK, NoHeader)]
                /\ deleted' = deleted + 1
           ELSE /\ todoItems' = todoItems
                /\ handlers' = [handlers EXCEPT ![g] = Panicked(h)]
                /\ deleted' = deleted
        /\ UNCHANGED <<before, request, response, created, lifeVars>>

\* updateTodoItem: if content != "" { todoItems[id].Content = content }
UpdateContent(g) ==
    LET h       == handlers[g]
        i       == Atoi(h.r.id).val
        content == FormValue(h.r, "content")
    IN  /\ h.pc = "setContent"
        /\ IF content = ""
           THEN /\ todoItems' = todoItems
                /\ handlers' = [handlers EXCEPT ![g] = At(h, "setDone")]
           ELSE IF InBounds(i, todoItems)
           THEN /\ todoItems' = [todoItems EXCEPT ![i + 1].Content = content]
                /\ handlers' = [handlers EXCEPT ![g] = At(h, "setDone")]
           ELSE /\ todoItems' = todoItems
                /\ handlers' = [handlers EXCEPT ![g] = Panicked(h)]
        /\ UNCHANGED <<before, request, response, created, deleted, lifeVars>>

\* updateTodoItem: if doneStr != "" { ParseBool; todoItems[id].Done = done }
UpdateDone(g) ==
    LET h       == handlers[g]
        i       == Atoi(h.r.id).val
        doneStr == FormValue(h.r, "done")
        done    == ParseBool(doneStr)
    IN  /\ h.pc = "setDone"
        /\ IF doneStr = ""
           THEN /\ todoItems' = todoItems
                /\ handlers' = [handlers EXCEPT ![g] =
                                    Returned(h, StatusOK, NoHeader)]
           ELSE IF done.err
           THEN /\ todoItems' = todoItems
                /\ handlers' = [handlers EXCEPT ![g] =
                                    Returned(h, StatusBadRequest, NoHeader)]
           ELSE IF InBounds(i, todoItems)
           THEN /\ todoItems' = [todoItems EXCEPT ![i + 1].Done = done.val]
                /\ handlers' = [handlers EXCEPT ![g] =
                                    Returned(h, StatusOK, NoHeader)]
           ELSE /\ todoItems' = todoItems
                /\ handlers' = [handlers EXCEPT ![g] = Panicked(h)]
        /\ UNCHANGED <<before, request, response, created, deleted, lifeVars>>

\* createTodoItem: append reads the slice todoItems ...
AppendRead(g) ==
    LET h == handlers[g]
    IN  /\ h.pc = "read"
        /\ handlers' = [handlers EXCEPT ![g] =
               [h EXCEPT !.pc = "write", !.old = todoItems]]
        /\ UNCHANGED <<crudVars, lifeVars>>

\* ... and its result, the slice read with the item after it, is assigned
\* to todoItems
AppendWrite(g) ==
    LET h == handlers[g]
    IN  /\ h.pc = "write"
        /\ todoItems' = Append(h.old, HandlerItem(h))
        /\ handlers' = [handlers EXCEPT ![g] = At(h, "location")]
        /\ UNCHANGED <<before, request, response, created, deleted, lifeVars>>

\* createTodoItem, replaceTodoItem: the Location header from
\* len(todoItems)-1, then WriteHeader
WriteLocation(g) ==
    LET h == handlers[g]
    IN  /\ h.pc = "location"
        /\ handlers' = [handlers EXCEPT ![g] =
               Returned(h,
                        IF h.r.handler = CreateRoute THEN StatusCreated
                        ELSE StatusOK,
                        Location(URLHost, Len(todoItems) - 1))]
        /\ created' = IF h.r.handler = CreateRoute THEN created + 1
                      ELSE created
        /\ UNCHANGED <<todoItems, before, request, response, deleted,
                       lifeVars>>

\* example 2 serving, with a collection that earlier requests built
ConcInit ==
    /\ todoItems \in ConcCollections
    /\ before = todoItems
    /\ request = NoRequest
    /\ response = NoResponse
    /\ created = Len(todoItems)
    /\ deleted = 0
    /\ handlers = [g \in Goroutines |-> IdleHandler]
    /\ example = 2
    /\ mainPc = "wait"
    /\ serverPc = "serving"
    /\ inShutdown = FALSE
    /\ active = 0
    /\ elapsed = 0
    /\ signalled = FALSE
    /\ stdout = <<"listening on port">>
    /\ stderr = FALSE
    /\ exitStatus = -1

ConcNext ==
    \E g \in Goroutines :
        \/ Begin(g)
        \/ CheckId(g)
        \/ ParseRequestForm(g)
        \/ ReadAccess(g)
        \/ ReplaceAccess(g)
        \/ DeleteAccess(g)
        \/ UpdateContent(g)
        \/ UpdateDone(g)
        \/ AppendRead(g)
        \/ AppendWrite(g)
        \/ WriteLocation(g)

SpecConc == ConcInit /\ [][ConcNext]_vars

(***************************************************************************)
(* Properties of the handlers (checked under Spec).                        *)
(***************************************************************************)
\* the id the last request carried, as strconv.Atoi reads it
ReqId == Atoi(request.id)
\* the index asked for exists in the collection the handler found
IdInRange == ~ReqId.err /\ 0 <= ReqId.val /\ ReqId.val < Len(before)
\* the item the form of the last request describes
FormItem ==
    TodoItem(FormValue(request, "content"),
             ParseBool(FormValue(request, "done")).val)
FormValid == request.formOK /\ ~ParseBool(FormValue(request, "done")).err
IdRoutes == {ReadRoute, ExistsRoute, ReplaceRoute, UpdateRoute, DeleteRoute}

\* C1: every request answered with a 4xx status leaves the collection
\* exactly as it was before the request.
C1_NoMutationOn4xx ==
    response.status \in {StatusBadRequest, StatusNotFound}
        => todoItems = before

\* C2: Read, HEAD, Update and Delete on an integer index i with i < 0 or
\* i >= current length respond 404 and leave the collection untouched,
\* in every reachable collection state.
C2_OutOfRangeIs404 ==
    (/\ request.handler \in {ReadRoute, ExistsRoute, UpdateRoute, DeleteRoute}
     /\ ~ReqId.err
     /\ (ReqId.val < 0 \/ ReqId.val >= Len(before)))
        => (response.status = StatusNotFound /\ todoItems = before)

\* an Update that would have written both fields, at the index just past
\* the end of a collection of two
C2_Witness ==
    /\ request.handler = UpdateRoute
    /\ ~ReqId.err /\ ReqId.val = Len(before) /\ Len(before) = 2
    /\ FormValue(request, "content") = "a"
    /\ FormValue(request, "done") = "true"
    /\ response.status = StatusNotFound

\* C3: a Delete at an index i in range succeeds, shortens the collection
\* by exactly one, leaves the items before i where they were and moves
\* each item after i down by one place.
C3_DeleteShifts ==
    (request.handler = DeleteRoute /\ IdInRange)
        => /\ response.status = StatusOK
           /\ Len(todoItems) = Len(before) - 1
           /\ \A j \in 0..(ReqId.val - 1) : todoItems[j + 1] = before[j + 1]
           /\ \A j \in (ReqId.val + 1)..(Len(before) - 1) :
                  todoItems[j] = before[j + 1]

\* a Delete in the middle of three items that are not all alike
C3_Witness ==
    /\ request.handler = DeleteRoute
    /\ response.status = StatusOK
    /\ Len(before) = 3 /\ ReqId.val = 1
    /\ before[1] # before[2] /\ before[2] # before[3]

\* C4: after a Create answered 201, a Read at the index of the Location
\* header answers 200 with the content/done pair that was submitted.
C4_CreateThenRead ==
    (request.handler = CreateRoute /\ response.status = StatusCreated)
        => LET read == getTodoItem(todoItems,
                           [handler |-> ReadRoute,
                            id |-> LocationId(response.location),
                            formOK |-> TRUE, form |-> NoForm])
           IN  /\ read.status = StatusOK
               /\ read.body = JSONObject(FormItem)
               /\ read.items = todoItems

\* a Create on a collection that already holds different items
C4_Witness ==
    /\ request.handler = CreateRoute
    /\ response.status = StatusCreated
    /\ Len(before) = 2
    /\ \A j \in 1..Len(before) : before[j] # FormItem

\* C5: an Update on an existing index leaves a field that the form omits
\* or gives as the empty string at its prior value; only done=true sets
\* Done and keeps Content, only content sets Content and keeps Done; no
\* other item changes and the length stays.
C5_UpdateKeepsOmitted ==
    (request.handler = UpdateRoute /\ IdInRange)
        => LET i       == ReqId.val + 1
               content == FormValue(request, "content")
               done    == FormValue(request, "done")
           IN  /\ Len(todoItems) = Len(before)
               /\ \A j \in 1..Len(before) :
                      j # i => todoItems[j] = before[j]
               /\ content = "" => todoItems[i].Content = before[i].Content
               /\ done = "" => todoItems[i].Done = before[i].Done
               /\ (content = "" /\ done = "true")
                      => (response.status = StatusOK /\ todoItems[i].Done)
               /\ (content # "" /\ done = "")
                      => (/\ response.status = StatusOK
                          /\ todoItems[i].Content = content)

\* only done=true, sent to an item with content that was not done, among
\* other items
C5_Witness ==
    /\ request.handler = UpdateRoute /\ IdInRange
    /\ DOMAIN request.form = {"done"} /\ request.form["done"] = "true"
    /\ Len(before) >= 2
    /\ before[ReqId.val + 1] = TodoItem("a", FALSE)
    /\ todoItems[ReqId.val + 1] = TodoItem("a", TRUE)

\* C6: every handler that takes an {id} answers a segment that is not an
\* integer with 400, never 404, whatever the length of the collection,
\* and leaves the collection unchanged.
C6_BadIdIs400 ==
    (request.handler \in IdRoutes /\ ReqId.err)
        => /\ response.status = StatusBadRequest
           /\ response.body = Text(BadId)
           /\ todoItems = before

\* a Read of a non-integer id on the empty collection, where a bounds
\* check made first would have said 404
C6_Witness ==
    /\ request.handler = ReadRoute
    /\ request.id = <<"x">>
    /\ before = <<>>
    /\ response.status = StatusBadRequest

\* C7: a Create with a valid form answers 201, puts the new item at the
\* index that was the length, grows the length by one, keeps every
\* earlier item in place, and names the new item's index in Location.
C7_CreateAppends ==
    (request.handler = CreateRoute /\ FormValid)
        => /\ response.status = StatusCreated
           /\ Len(todoItems) = Len(before) + 1
           /\ \A j \in 1..Len(before) : todoItems[j] = before[j]
           /\ todoItems[Len(before) + 1] = FormItem
           /\ ~Atoi(LocationId(response.location)).err
           /\ Atoi(LocationId(response.location)).val = Len(before)

\* a Create after two items, of an item unlike the first one
C7_Witness ==
    /\ request.handler = CreateRoute
    /\ response.status = StatusCreated
    /\ Len(before) = 2
    /\ before[1] # FormItem
    /\ response.location = <<URLHost, "/todo-item/", "2">>

\* C8: a Replace with a valid form at an existing index answers 200,
\* overwrites both fields of that item with the submitted pair (an empty
\* content too), and leaves the length and every other item unchanged.
C8_ReplaceOverwrites ==
    (request.handler = ReplaceRoute /\ IdInRange /\ FormValid)
        => /\ response.status = StatusOK
           /\ Len(todoItems) = Len(before)
           /\ todoItems[ReqId.val + 1] = FormItem
           /\ \A j \in 1..Len(before) :
                  j # ReqId.val + 1 => todoItems[j] = before[j]

\* a Replace with an empty content of an item that had content
C8_Witness ==
    /\ request.handler = ReplaceRoute /\ IdInRange /\ FormValid
    /\ FormValue(request, "content") = ""
    /\ before[ReqId.val + 1].Content = "a"
    /\ Len(before) >= 2
    /\ todoItems[ReqId.val + 1].Content = ""

\* C13: for every id text and collection, HEAD /todo-item/{id} answers
\* with the status GET /todo-item/{id} would give in that state, and the
\* other way round; neither changes the collection.
C13_ExistsLikeRead ==
    /\ request.handler = ExistsRoute
        => (/\ response.status = getTodoItem(before, request).status
            /\ todoItems = before)
    /\ request.handler = ReadRoute
        => (/\ response.status = getTodoItemExists(before, request).status
            /\ todoItems = before)

\* a HEAD of the index just past the end of a collection that has items
C13_Witness ==
    /\ request.handler = ExistsRoute
    /\ ~ReqId.err /\ ReqId.val = Len(before) /\ Len(before) >= 1
    /\ response.status = StatusNotFound

\* C14: PUT /todo-item/{id} with a valid form replaces the item at id
\* when one exists and creates one there when none exists: afterwards an
\* item with the submitted pair is at index id.
C14_ReplaceOrCreate ==
    (/\ request.handler = ReplaceRoute
     /\ ~ReqId.err /\ ReqId.val >= 0
     /\ FormValid)
        => (/\ ReqId.val < Len(todoItems)
            /\ todoItems[ReqId.val + 1] = FormItem)

C16_DoneRequired ==
    LET content == FormValue(request, "content")
        done    == FormValue(request, "done")
    IN  /\ (request.handler = CreateRoute /\ request.formOK /\ done = "")
               => (/\ response.status = StatusBadRequest
                   /\ todoItems = before)
        /\ (/\ request.handler = ReplaceRoute /\ IdInRange
            /\ request.formOK /\ done = "")
               => (/\ response.status = StatusBadRequest
                   /\ todoItems = before)
        /\ (request.handler = CreateRoute /\ FormValid /\ content = "")
               => (/\ response.status = StatusCreated
                   /\ todoItems[Len(todoItems)].Content = "")
        /\ (/\ request.handler = ReplaceRoute /\ IdInRange
            /\ FormValid /\ content = "")
               => (/\ response.status = StatusOK
                   /\ todoItems[ReqId.val + 1].Content = "")
        /\ (/\ request.handler = UpdateRoute /\ IdInRange
            /\ request.formOK /\ done = "")
               => response.status = StatusOK

\* a Create whose form gives a content and no done at all
C16_Witness ==
    /\ request.handler = CreateRoute
    /\ DOMAIN request.form = {"content"}
    /\ request.form["content"] = "a"
    /\ response.status = StatusBadRequest
    /\ response.body = Text(BadDone)
    /\ Len(before) >= 1

C18_ReadsChangeNothing ==
    request.handler \in {ListRoute, ReadRoute, ExistsRoute}
        => todoItems = before

\* a Read answered 200 on a collection of several items
C18_Witness ==
    /\ request.handler = ReadRoute
    /\ response.status = StatusOK
    /\ Len(before) = 3 /\ ReqId.val = 1
    /\ response.body = JSONObject(before[2])

(***************************************************************************)
(* Properties of the lifecycle (checked under SpecLife).                   *)
(***************************************************************************)
ListenerFailed == serverPc = "panicked"

\* C9: in example 2, once the interrupt is received the process never
\* panics into the top-level guard and never exits with status 1 (stated
\* for the executions in which the listener did not fail).
C9_InterruptNeverFatal ==
    (example = 2 /\ signalled /\ ~ListenerFailed)
        => (mainPc # "recovered" /\ exitStatus # 1)

\* C10: in examples 1 and 2, a process that received the interrupt and
\* has exited printed the farewell message before it exited (stated for
\* the executions in which the listener did not fail).
C10_FarewellBeforeExit ==
    (signalled /\ ~Running /\ ~ListenerFailed)
        => \E k \in 1..Len(stdout) : stdout[k] = Goodbye

\* C11: in examples 1 and 2, a listener failure other than the closing by
\* Shutdown is caught by the top-level guard: recoverer logs it to the
\* error stream and the process exits with status 1.
C11_ListenFailureCaught ==
    ListenerFailed
        => (mainPc = "recovered" /\ stderr /\ exitStatus = 1)

\* C12: in example 1, a panic raised on the server goroutine is local to
\* it: main is not stopped and the process goes on running.
C12_ServerPanicIsLocal ==
    (example = 1 /\ ListenerFailed)
        => (Running /\ mainPc # "killed")

(***************************************************************************)
(* Properties of the concurrent handlers (checked under SpecConc).         *)
(***************************************************************************)
\* the handler's next statement reads, writes or removes todoItems[id]
AboutToAccess(h) ==
    \/ h.pc = "access"
    \/ h.pc = "setContent" /\ FormValue(h.r, "content") # ""
    \/ /\ h.pc = "setDone"
       /\ FormValue(h.r, "done") # ""
       /\ ~ParseBool(FormValue(h.r, "done")).err

\* C19: under every interleaving, an id that passed a handler's bounds
\* check is still within 0 <= id < length when the handler reads, writes
\* or removes the item at id, and no handler indexes out of range.
C19_IdInRangeAtAccess ==
    \A g \in Goroutines :
        /\ AboutToAccess(handlers[g])
               => InBounds(Atoi(handlers[g].r.id).val, todoItems)
        /\ handlers[g].pc # "panicked"

\* the Creates that have answered 201
CreatesDone ==
    {g \in Goroutines :
        /\ handlers[g].pc = "returned"
        /\ handlers[g].r.handler = CreateRoute
        /\ handlers[g].status = StatusCreated}

Occurrences(items, item) ==
    Cardinality({j \in 1..Len(items) : items[j] = item})

\* C20: when k concurrent Creates have all answered 201 and nothing else
\* ran, the collection is k longer, holds each submitted item once more
\* than before, and the k Location headers name k different indices,
\* each the index of the item its own request submitted.
C20_ConcurrentCreates ==
    (/\ CreatesDone # {}
     /\ \A g \in Goroutines : g \in CreatesDone \/ handlers[g].pc = "idle")
        => /\ Len(todoItems) = Len(before) + Cardinality(CreatesDone)
           /\ \A g \in CreatesDone :
                  /\ Occurrences(todoItems, HandlerItem(handlers[g]))
                       = Occurrences(before, HandlerItem(handlers[g]))
                         + Cardinality({k \in CreatesDone :
                               HandlerItem(handlers[k])
                                   = HandlerItem(handlers[g])})
                  /\ LET at == Atoi(LocationId(handlers[g].location)).val
                     IN  /\ InBounds(at, todoItems)
                         /\ todoItems[at + 1] = HandlerItem(handlers[g])
           /\ \A g, k \in CreatesDone :
                  g # k => handlers[g].location # handlers[k].location

====
